---- MODULE Spec2Model ----
(***************************************************************************)
(* MealLens AI backend: enterprise invitations and memberships, the        *)
(* meal-plan approval workflow and the settings history recorder, as state *)
(* machines over the tables of the hosted database.  Every request handler *)
(* is a sequence of separate database calls; a request thread performs one *)
(* call per step, so calls of concurrent requests interleave.              *)
(***************************************************************************)
EXTENDS Integers, Sequences, FiniteSets, TLC

\* ------------------------------------------------------------------ bounds
MaxRequests == 3
MaxUsers == 1
MaxPlans == 2
MaxSaves == 2
MaxCallers == 3

\* max_retries = 3 of the retry loops
max_retries == 3

\* The request threads of the server, the people (one e-mail address each; a
\* person's user id is written like the e-mail) and the enterprises.
Workers == {"w1", "w2"}
Users == {"o1", "o2", "u1"}
Enterprises == {"e1", "e2"}
Anon == "anon"

\* enterprises.created_by: the owner of each enterprise
created_by == [e \in Enterprises |-> IF e = "e1" THEN "o1" ELSE "o2"]

\* enterprises.max_users
max_users == [e \in Enterprises |-> MaxUsers]

VARIABLES
    auth_users,          \* accounts of the auth provider (set of user ids)
    deleted_users,       \* accounts removed by delete_organization_user
    invitations,         \* rows of table invitations
    organization_users,  \* rows of table organization_users
    next_invitation_id,  \* ids and tokens handed out so far (secrets / uuid4)
    next_membership_id,
    started,             \* number of requests received so far
    past_expiry,         \* ids of the invitations whose expires_at lies before the current time
    granted,             \* history: <<invitation id, membership id>> of every insert made for an invitation
    thr,                 \* per request thread: the request and its position
    meal_plan_management,\* rows of table meal_plan_management
    next_plan_id,
    approved_ok,         \* history: plan ids approve_meal_plan answered 200 for
    rejected_ok,         \* history: plan ids reject_meal_plan answered 200 for
    user_settings,       \* user id -> stored settings_data
    user_settings_history,\* rows of table user_settings_history
    next_history_id,
    serial,              \* TRUE: the server takes a request only when none is in progress
    retry,               \* a call through a retry loop: the operation's outcomes and the loop's position
    is_configured,       \* email_service.is_configured: SMTP_USER and SMTP_PASSWORD are set
    singleton            \* the admin client of utils.enterprise_utils, its lock and the threads asking for it

entVars == <<auth_users, deleted_users, invitations, organization_users,
             next_invitation_id, next_membership_id, started, past_expiry, granted, thr>>
planVars == <<meal_plan_management, next_plan_id, approved_ok, rejected_ok>>
setVars == <<user_settings, user_settings_history, next_history_id>>
server == <<serial, retry, is_configured, singleton>>
vars == <<entVars, planVars, setVars, server>>
\* the tables the enterprise membership handlers do not touch
others == <<planVars, setVars, server>>
\* everything of the enterprise state but the request threads
tables == <<auth_users, deleted_users, invitations, organization_users,
            next_invitation_id, next_membership_id, past_expiry, granted>>
\* the tokens and ids a request can name: those handed out, and 0 for any other value
KnownInvitations == 0..(next_invitation_id - 1)
KnownMemberships == 0..(next_membership_id - 1)
KnownPlans == 0..(next_plan_id - 1)

\* ------------------------------------------------------------ settings values
\* settings_data is a JSON object: field name -> value, Missing where the key
\* is not in the object.  "age" is one of the expected fields, "note" is a
\* field outside the list, "0" is an array-index key.
Fields == {"age", "note", "0"}
Missing == "missing"
Values == {"30", "31", ""}
\* the objects a request sends: "age" takes every value, the other keys are
\* absent or hold "30"
Settings ==
    {d \in [Fields -> Values \cup {Missing}] :
        \A k \in Fields \ {"age"} : d[k] \in {Missing, "30"}}
NoSettings == [k \in Fields |-> Missing]

\* ------------------------------------------------------------ request threads
Idle == [op |-> "none", pc |-> "idle", user |-> Anon, ent |-> "none", inv |-> 0,
         email |-> "none", role |-> "none", st |-> "none", todo |-> {},
         rel |-> 0, code |-> 0, error |-> "none", retry_count |-> 0, target |-> "none", plan |-> 0, name |-> "none",
         data |-> NoSettings, existing |-> NoSettings, before |-> NoSettings,
         persisted |-> NoSettings, mailer |-> "none", email_sent |-> FALSE]

\* A request arrives at a free thread (its last response stays on record until then).
Rank == [w \in Workers |-> IF w = "w1" THEN 1 ELSE 2]

Waiting(w) == thr[w].pc \in {"idle", "respond"}

Free(w) ==
    /\ Waiting(w)
    /\ \A v \in Workers : Rank[v] < Rank[w] => ~Waiting(v)
    /\ serial => \A v \in Workers : Waiting(v)
    /\ started < MaxRequests

Request(o, u) == [Idle EXCEPT !.op = o, !.user = u]

\* The handler returns its response.
Answer(r, c) ==
    [Idle EXCEPT !.op = r.op, !.pc = "respond", !.code = c]

Set(w, r) == thr' = [thr EXCEPT ![w] = r]

Respond(w, c) == Set(w, Answer(thr[w], c))

\* an error response, with what its 'error' text says
RespondError(w, c, e) == Set(w, [Answer(thr[w], c) EXCEPT !.error = e])

Goto(w, p) == thr' = [thr EXCEPT ![w].pc = p]

\* ------------------------------------------------------------------- tables
Memberships(e, u) == {m \in organization_users : m.enterprise_id = e /\ m.user_id = u}

InvitationById(i) == {r \in invitations : r.id = i}

\* secrets.token_urlsafe(32): one fresh token per invitation, written as its id
InvitationByToken(t) == {r \in invitations : r.invitation_token = t}

PendingFor(e, mail) ==
    {r \in invitations : r.enterprise_id = e /\ r.email = mail /\ r.status = "pending"}

NewMembership(e, u, role) ==
    [id |-> next_membership_id, enterprise_id |-> e, user_id |-> u, role |-> role]

\* update({'status': 'accepted', 'accepted_at', 'accepted_by'}).eq('id', i)
MarkAccepted(i, by) ==
    {IF r.id = i THEN [r EXCEPT !.status = "accepted", !.accepted_by = by] ELSE r : r \in invitations}

\* update({'status': 'cancelled'}).eq('id', i)
MarkCancelled(i) ==
    {IF r.id = i THEN [r EXCEPT !.status = "cancelled"] ELSE r : r \in invitations}

\* check_user_is_org_admin: the answers it can give.  An enterprise id with no
\* row is "Organization not found"; the owner is recognised by created_by;
\* otherwise data[0] of the membership rows (selected in no stated order)
\* decides; an exception of a database call is answered (False, reason).
check_user_is_org_admin(u, e) ==
    {"error"} \cup
    (IF e \notin Enterprises THEN {"not_found"}
     ELSE IF created_by[e] = u THEN {"owner"}
     ELSE IF Memberships(e, u) = {} THEN {"not_member"}
     ELSE {IF m.role = "admin" THEN "admin" ELSE "denied" : m \in Memberships(e, u)})

IsAdminAnswer(a) == a \in {"owner", "admin"}

\* no call is inside a retry loop
NoCall == [helper |-> "none", script |-> <<>>, attempt |-> 0, calls |-> 0, delay |-> 0,
           slept |-> <<>>, pc |-> "idle", result |-> "none", code |-> 0, listed |-> {},
           last_error |-> "none", returned |-> <<"none", "none">>]

\* The threads that call get_admin_client, and the module state before any
\* call: _admin_client None (0), the lock free (0), no thread inside.
Callers == 1..MaxCallers

NoClient == [admin_client |-> 0, lock |-> 0, create_client_calls |-> 0, credentials |-> TRUE,
             pc |-> [c \in Callers |-> "idle"], got |-> [c \in Callers |-> 0]]

\* ------------------------------------------------------------------- Init
InitEnt ==
    /\ auth_users = {created_by[e] : e \in Enterprises}
    /\ deleted_users = {}
    /\ invitations = {}
    /\ organization_users = {}
    /\ next_invitation_id = 1
    /\ next_membership_id = 1
    /\ started = 0
    /\ past_expiry = {}
    /\ granted = {}
    /\ thr = [w \in Workers |-> Idle]

InitPlansEmpty ==
    /\ meal_plan_management = {}
    /\ next_plan_id = 1
    /\ approved_ok = {}
    /\ rejected_ok = {}

InitSettingsEmpty ==
    /\ user_settings = [u \in Users |-> NoSettings]
    /\ user_settings_history = {}
    /\ next_history_id = 1

\* the e-mail service is not configured, unless said otherwise
Init ==
    /\ InitEnt /\ InitPlansEmpty /\ InitSettingsEmpty
    /\ serial = FALSE /\ retry = NoCall /\ is_configured = FALSE /\ singleton = NoClient

\* the same server taking one request at a time
InitSeq ==
    /\ InitEnt /\ InitPlansEmpty /\ InitSettingsEmpty
    /\ serial = TRUE /\ retry = NoCall /\ is_configured = FALSE /\ singleton = NoClient

\* ------------------------------------------------------------ invite_user
\* the roles an invitation may carry (none of them is 'admin'); one stands for all
ALLOWED_ROLES == {"patient"}

\* request received; enterprise found; check_user_is_org_admin
Invite(w) ==
    /\ Free(w)
    /\ \E u \in auth_users, e \in Enterprises, mail \in Users, r \in ALLOWED_ROLES :
         \E a \in check_user_is_org_admin(u, e) :
           LET req == [Request("invite_user", u) EXCEPT !.ent = e, !.email = mail, !.role = r]
           IN IF IsAdminAnswer(a)
              THEN Set(w, [req EXCEPT !.pc = "inv_limit"])
              ELSE Set(w, Answer(req, 403))
    /\ started' = started + 1
    /\ UNCHANGED tables
    /\ UNCHANGED others

\* select('id', count='exact').eq('enterprise_id', enterprise_id)
current_count(e) == Cardinality({m \in organization_users : m.enterprise_id = e})

\* the user limit test
limit_exceeded(count, max) == count > max

limit_reached(count, max) == count >= max

\* "Maximum user limit (max_users) reached"
InviteLimit(w) ==
    /\ thr[w].pc = "inv_limit"
    /\ IF limit_reached(current_count(thr[w].ent), max_users[thr[w].ent])
       THEN RespondError(w, 400, "limit")
       ELSE Goto(w, "inv_exists")
    /\ UNCHANGED <<tables, started>>
    /\ UNCHANGED others

\* check_user_exists_by_email: an existing account cannot be invited; a failed
\* lookup answers (False, None) and the invitation goes on
InviteExists(w) ==
    /\ thr[w].pc = "inv_exists"
    /\ \/ thr[w].email \in auth_users /\ Respond(w, 400)
       \/ Goto(w, "inv_pending")
    /\ UNCHANGED <<tables, started>>
    /\ UNCHANGED others

\* "User already has a pending invitation": the select looks at status alone
InvitePending(w) ==
    /\ thr[w].pc = "inv_pending"
    /\ IF PendingFor(thr[w].ent, thr[w].email) # {}
       THEN RespondError(w, 400, "pending")
       ELSE Goto(w, "inv_insert")
    /\ UNCHANGED <<tables, started>>
    /\ UNCHANGED others

\* The insert, and what follows it without a database call: with the e-mail
\* service configured the send thread is started and joined, otherwise the
\* response is 201 with email_sent false.
InviteInsert(w) ==
    /\ thr[w].pc = "inv_insert"
    /\ invitations' = invitations \cup
          {[id |-> next_invitation_id, invitation_token |-> next_invitation_id,
            enterprise_id |-> thr[w].ent, email |-> thr[w].email,
            invited_by |-> thr[w].user, role |-> thr[w].role,
            status |-> "pending", accepted_by |-> "none"]}
    /\ next_invitation_id' = next_invitation_id + 1
    /\ IF is_configured
       THEN Set(w, [thr[w] EXCEPT !.inv = next_invitation_id, !.pc = "inv_join",
                                  !.mailer = "running"])
       ELSE Set(w, Answer([thr[w] EXCEPT !.inv = next_invitation_id], 201))
    /\ UNCHANGED <<auth_users, deleted_users, organization_users, next_membership_id,
                   started, past_expiry, granted>>
    /\ UNCHANGED others

\* send_email_async, the daemon thread: send_invitation_email returns True, or
\* returns False or raises; nothing makes it return
SendEmail(w) ==
    /\ thr[w].mailer = "running"
    /\ \E r \in {"sent", "failed"} : thr' = [thr EXCEPT ![w].mailer = r]
    /\ UNCHANGED <<tables, started>>
    /\ UNCHANGED others

\* email_thread.join(): returns when the thread has ended
join_forever(t) == t # "running"

\* email_thread.join(timeout=10.0): returns when the thread has ended or 10s passed
join_timeout(t) == TRUE

\* after the join: is_alive() means email_sent False, otherwise email_result['sent'];
\* the response is 201 and keeps the id of the created invitation
InviteJoin(w) ==
    /\ thr[w].pc = "inv_join"
    /\ join_timeout(thr[w].mailer)
    /\ Set(w, [Answer(thr[w], 201) EXCEPT !.inv = thr[w].inv,
                                          !.email_sent = (thr[w].mailer = "sent")])
    /\ UNCHANGED <<tables, started>>
    /\ UNCHANGED others

\* ------------------------------------------------------- cancel_invitation
\* request received; the invitation is read
Cancel(w) ==
    /\ Free(w)
    /\ \E u \in auth_users, i \in KnownInvitations :
         LET req == [Request("cancel_invitation", u) EXCEPT !.inv = i]
         IN IF InvitationById(i) = {}
            THEN Set(w, Answer(req, 404))
            ELSE \E r \in InvitationById(i) :
                   Set(w, [req EXCEPT !.pc = "can_perm", !.ent = r.enterprise_id, !.st = r.status])
    /\ started' = started + 1
    /\ UNCHANGED tables
    /\ UNCHANGED others

\* check_user_is_org_admin, then the status of the row read before
CancelPerm(w) ==
    /\ thr[w].pc = "can_perm"
    /\ \E a \in check_user_is_org_admin(thr[w].user, thr[w].ent) :
         IF ~IsAdminAnswer(a) THEN Respond(w, 403)
         ELSE IF thr[w].st # "pending" THEN Respond(w, 400)
         ELSE Goto(w, "can_update")
    /\ UNCHANGED <<tables, started>>
    /\ UNCHANGED others

CancelUpdate(w) ==
    /\ thr[w].pc = "can_update"
    /\ invitations' = MarkCancelled(thr[w].inv)
    /\ Respond(w, 200)
    /\ UNCHANGED <<auth_users, deleted_users, organization_users, next_invitation_id,
                   next_membership_id, started, past_expiry, granted>>
    /\ UNCHANGED others

\* ------------------------------------------------------ get_my_enterprises
\* get_supabase_client(use_admin=True) inside the try.  When it raises, the
\* except clause formats its log line with max_retries, a local that is not
\* assigned yet: the UnboundLocalError leaves the handler.
MyEnterprises(w) ==
    /\ Free(w)
    /\ \E u \in auth_users :
         LET req == Request("get_my_enterprises", u)
         IN \/ Set(w, [req EXCEPT !.pc = "me_query"])
            \/ Set(w, [Answer(req, 500) EXCEPT !.error = "uncaught"])
    /\ started' = started + 1
    /\ UNCHANGED tables
    /\ UNCHANGED others

\* one pass of the while loop: the query answers (200), or raises and is tried
\* again after 0.5s while retry_count < max_retries, then raised to the outer
\* except clause (500)
MyEnterprisesQuery(w) ==
    /\ thr[w].pc = "me_query"
    /\ \/ Respond(w, 200)
       \/ IF thr[w].retry_count + 1 < max_retries
          THEN Set(w, [thr[w] EXCEPT !.retry_count = @ + 1])
          ELSE RespondError(w, 500, "failed")
    /\ UNCHANGED <<tables, started>>
    /\ UNCHANGED others

\* ------------------------------------------------------- verify_invitation
\* now > expires_at
never_expired(r) == FALSE

is_expired(r) == r.id \in past_expiry

\* The public endpoint: one select by token, then the status and the expiry of
\* the row.  The response keeps the token asked for.
Verify(w) ==
    /\ Free(w)
    /\ \E t \in KnownInvitations :
         LET req == [Request("verify_invitation", Anon) EXCEPT !.inv = t]
             out(c, e) == [Answer(req, c) EXCEPT !.inv = t, !.error = e]
         IN \/ Set(w, out(500, "failed"))
            \/ IF InvitationByToken(t) = {}
               THEN Set(w, out(404, "invalid"))
               ELSE \E r \in InvitationByToken(t) :
                      IF r.status # "pending" THEN Set(w, out(400, "status"))
                      ELSE IF is_expired(r) THEN Set(w, out(400, "expired"))
                      ELSE Set(w, out(200, "none"))
    /\ started' = started + 1
    /\ UNCHANGED tables
    /\ UNCHANGED others

\* ------------------------------------------------- membership insert sites
\* existing_membership.data of the check each insert site makes first
no_membership_check(e, u) == FALSE

existing_membership(e, u) == Memberships(e, u) # {}

\* organization_users.insert(membership_data), for invitation i (0: none)
InsertMembership(e, u, role, i) ==
    /\ organization_users' = organization_users \cup {NewMembership(e, u, role)}
    /\ next_membership_id' = next_membership_id + 1
    /\ granted' = IF i = 0 THEN granted ELSE granted \cup {<<i, next_membership_id>>}

\* -------------------------------------------------------- accept_invitation
\* request received; the invitation is read by its token
Accept(w) ==
    /\ Free(w)
    /\ \E u \in auth_users \cup {Anon}, t \in KnownInvitations :
         LET req == Request("accept_invitation", u)
         IN IF InvitationByToken(t) = {}
            THEN Set(w, Answer(req, 400))
            ELSE \E r \in InvitationByToken(t) :
                   LET found == [req EXCEPT !.inv = r.id, !.ent = r.enterprise_id, !.role = r.role]
                   IN IF r.status # "pending" \/ r.id \in past_expiry
                      THEN Set(w, Answer(found, 400))
                      ELSE IF u = Anon
                      THEN Set(w, Answer(found, 200))
                      ELSE Set(w, [found EXCEPT !.pc = "acc_check"])
    /\ started' = started + 1
    /\ UNCHANGED tables
    /\ UNCHANGED others

AcceptCheck(w) ==
    /\ thr[w].pc = "acc_check"
    /\ IF existing_membership(thr[w].ent, thr[w].user)
       THEN Respond(w, 400)
       ELSE Goto(w, "acc_insert")
    /\ UNCHANGED <<tables, started>>
    /\ UNCHANGED others

AcceptInsert(w) ==
    /\ thr[w].pc = "acc_insert"
    /\ InsertMembership(thr[w].ent, thr[w].user, thr[w].role, thr[w].inv)
    /\ Goto(w, "acc_update")
    /\ UNCHANGED <<auth_users, deleted_users, invitations, next_invitation_id,
                   started, past_expiry>>
    /\ UNCHANGED others

\* the update is keyed by id alone; an update that matched no row is only logged
AcceptUpdate(w) ==
    /\ thr[w].pc = "acc_update"
    /\ invitations' = MarkAccepted(thr[w].inv, thr[w].user)
    /\ Respond(w, 200)
    /\ UNCHANGED <<auth_users, deleted_users, organization_users, next_invitation_id,
                   next_membership_id, started, past_expiry, granted>>
    /\ UNCHANGED others

\* ------------------------------------------------------ complete_invitation
\* request received; the invitation is read by its id
Complete(w) ==
    /\ Free(w)
    /\ \E u \in auth_users, i \in KnownInvitations :
         LET req == [Request("complete_invitation", u) EXCEPT !.inv = i]
         IN IF InvitationById(i) = {}
            THEN Set(w, Answer(req, 400))
            ELSE \E r \in InvitationById(i) :
                   LET found == [req EXCEPT !.ent = r.enterprise_id, !.role = r.role]
                   IN IF r.status \notin {"pending", "accepted"}
                      THEN Set(w, Answer(found, 400))
                      ELSE Set(w, [found EXCEPT !.pc = "cmp_check"])
    /\ started' = started + 1
    /\ UNCHANGED tables
    /\ UNCHANGED others

CompleteCheck(w) ==
    /\ thr[w].pc = "cmp_check"
    /\ IF existing_membership(thr[w].ent, thr[w].user)
       THEN Respond(w, 400)
       ELSE Goto(w, "cmp_insert")
    /\ UNCHANGED <<tables, started>>
    /\ UNCHANGED others

CompleteInsert(w) ==
    /\ thr[w].pc = "cmp_insert"
    /\ InsertMembership(thr[w].ent, thr[w].user, thr[w].role, thr[w].inv)
    /\ Goto(w, "cmp_update")
    /\ UNCHANGED <<auth_users, deleted_users, invitations, next_invitation_id,
                   started, past_expiry>>
    /\ UNCHANGED others

CompleteUpdate(w) ==
    /\ thr[w].pc = "cmp_update"
    /\ invitations' = MarkAccepted(thr[w].inv, thr[w].user)
    /\ Respond(w, 200)
    /\ UNCHANGED <<auth_users, deleted_users, organization_users, next_invitation_id,
                   next_membership_id, started, past_expiry, granted>>
    /\ UNCHANGED others

\* ------------------------------------------ auto_accept_pending_invitations
\* called for a signed-in user; the pending invitations of the e-mail are read
AutoAccept(w) ==
    /\ Free(w)
    /\ \E u \in auth_users :
         Set(w, [Request("auto_accept", u) EXCEPT
                   !.pc = "auto_check",
                   !.todo = {[id |-> r.id, enterprise_id |-> r.enterprise_id, role |-> r.role] :
                             r \in {x \in invitations : x.email = u /\ x.status = "pending"}}])
    /\ started' = started + 1
    /\ UNCHANGED tables
    /\ UNCHANGED others

\* the loop: the next invitation, its expiry, the membership check
AutoCheck(w) ==
    /\ thr[w].pc = "auto_check"
    /\ IF thr[w].todo = {}
       THEN Respond(w, 200)
       ELSE \E r \in thr[w].todo :
              LET rest == [thr[w] EXCEPT !.todo = thr[w].todo \ {r}]
                  cur  == [rest EXCEPT !.inv = r.id, !.ent = r.enterprise_id, !.role = r.role]
              IN IF r.id \in past_expiry
                 THEN Set(w, rest)
                 ELSE IF existing_membership(r.enterprise_id, thr[w].user)
                 THEN Set(w, [cur EXCEPT !.pc = "auto_mark"])
                 ELSE Set(w, [cur EXCEPT !.pc = "auto_insert"])
    /\ UNCHANGED <<tables, started>>
    /\ UNCHANGED others

\* already a member: the invitation is marked accepted all the same
AutoMark(w) ==
    /\ thr[w].pc = "auto_mark"
    /\ invitations' = MarkAccepted(thr[w].inv, thr[w].user)
    /\ Goto(w, "auto_check")
    /\ UNCHANGED <<auth_users, deleted_users, organization_users, next_invitation_id,
                   next_membership_id, started, past_expiry, granted>>
    /\ UNCHANGED others

AutoInsert(w) ==
    /\ thr[w].pc = "auto_insert"
    /\ InsertMembership(thr[w].ent, thr[w].user, thr[w].role, thr[w].inv)
    /\ Goto(w, "auto_update")
    /\ UNCHANGED <<auth_users, deleted_users, invitations, next_invitation_id,
                   started, past_expiry>>
    /\ UNCHANGED others

AutoUpdate(w) ==
    /\ thr[w].pc = "auto_update"
    /\ invitations' = MarkAccepted(thr[w].inv, thr[w].user)
    /\ Goto(w, "auto_check")
    /\ UNCHANGED <<auth_users, deleted_users, organization_users, next_invitation_id,
                   next_membership_id, started, past_expiry, granted>>
    /\ UNCHANGED others

\* ---------------------------------------------------------------- create_user
\* data['role'] is stored as sent
CreateRoles == {"admin", "patient"}

\* request received; check_user_is_org_admin; enterprise found
CreateUser(w) ==
    /\ Free(w)
    /\ \E u \in auth_users, e \in Enterprises, mail \in Users \ deleted_users, r \in CreateRoles :
         \E a \in check_user_is_org_admin(u, e) :
           LET req == [Request("create_user", u) EXCEPT !.ent = e, !.email = mail, !.role = r]
           IN IF IsAdminAnswer(a)
              THEN Set(w, [req EXCEPT !.pc = "cu_account"])
              ELSE Set(w, Answer(req, 403))
    /\ started' = started + 1
    /\ UNCHANGED tables
    /\ UNCHANGED others

\* list_users() and auth.admin.create_user: an address that has an account is
\* refused by the list (400) or, the list failing, by the provider (500)
CreateAccount(w) ==
    /\ thr[w].pc = "cu_account"
    /\ IF thr[w].email \in auth_users
       THEN /\ \E c \in {400, 500} : Respond(w, c)
            /\ UNCHANGED auth_users
       ELSE /\ auth_users' = auth_users \cup {thr[w].email}
            /\ Goto(w, "cu_insert")
    /\ UNCHANGED <<deleted_users, invitations, organization_users, next_invitation_id,
                   next_membership_id, started, past_expiry, granted>>
    /\ UNCHANGED others

CreateInsert(w) ==
    /\ thr[w].pc = "cu_insert"
    /\ InsertMembership(thr[w].ent, thr[w].email, thr[w].role, 0)
    /\ Respond(w, 201)
    /\ UNCHANGED <<auth_users, deleted_users, invitations, next_invitation_id,
                   started, past_expiry>>
    /\ UNCHANGED others

\* ------------------------------------------------ delete_organization_user
\* request received; the relation row and its enterprise are read; get_user_by_id
DeleteUser(w) ==
    /\ Free(w)
    /\ \E u \in auth_users, rel \in KnownMemberships :
         LET req  == [Request("delete_organization_user", u) EXCEPT !.rel = rel]
             rows == {m \in organization_users : m.id = rel}
         IN IF rows = {}
            THEN Set(w, Answer(req, 404))
            ELSE \E m \in rows :
                   IF created_by[m.enterprise_id] # u
                   THEN Set(w, Answer([req EXCEPT !.ent = m.enterprise_id], 403))
                   ELSE Set(w, [req EXCEPT !.pc = "del_data", !.ent = m.enterprise_id,
                                           !.email = m.user_id])
    /\ started' = started + 1
    /\ UNCHANGED tables
    /\ UNCHANGED others

\* user_settings_history, user_settings, meal_plan_management: the user's rows go
DeleteData(w) ==
    /\ thr[w].pc = "del_data"
    /\ user_settings_history' = {h \in user_settings_history : h.user_id # thr[w].email}
    /\ user_settings' = [user_settings EXCEPT ![thr[w].email] = NoSettings]
    /\ meal_plan_management' = {p \in meal_plan_management : p.user_id # thr[w].email}
    /\ Goto(w, "del_members")
    /\ UNCHANGED <<tables, started, next_plan_id, approved_ok, rejected_ok,
                   next_history_id, server>>

\* organization_users.delete().eq('user_id', user_id): every enterprise's rows
DeleteMembers(w) ==
    /\ thr[w].pc = "del_members"
    /\ organization_users' = {m \in organization_users : m.user_id # thr[w].email}
    /\ Goto(w, "del_invitations")
    /\ UNCHANGED <<auth_users, deleted_users, invitations, next_invitation_id,
                   next_membership_id, started, past_expiry, granted>>
    /\ UNCHANGED others

\* invitations.delete().eq('email', user_email), when the account was found
DeleteInvitations(w) ==
    /\ thr[w].pc = "del_invitations"
    /\ invitations' = IF thr[w].email \in auth_users
                      THEN {r \in invitations : r.email # thr[w].email}
                      ELSE invitations
    /\ Goto(w, "del_auth")
    /\ UNCHANGED <<auth_users, deleted_users, organization_users, next_invitation_id,
                   next_membership_id, started, past_expiry, granted>>
    /\ UNCHANGED others

\* auth.admin.delete_user and its fallbacks: 200 when one worked, else 500
DeleteAuth(w) ==
    /\ thr[w].pc = "del_auth"
    /\ \/ /\ auth_users' = auth_users \ {thr[w].email}
          /\ deleted_users' = deleted_users \cup {thr[w].email}
          /\ Respond(w, 200)
       \/ /\ UNCHANGED <<auth_users, deleted_users>>
          /\ Respond(w, 500)
    /\ UNCHANGED <<invitations, organization_users, next_invitation_id,
                   next_membership_id, started, past_expiry, granted>>
    /\ UNCHANGED others

\* ------------------------------------------------------------ environment
\* a person registers an account
Signup(u) ==
    /\ u \in Users \ (auth_users \cup deleted_users)
    /\ auth_users' = auth_users \cup {u}
    /\ UNCHANGED <<deleted_users, invitations, organization_users, next_invitation_id,
                   next_membership_id, started, past_expiry, granted, thr>>
    /\ UNCHANGED others

\* the clock passes expires_at of an invitation
TimePasses(i) ==
    /\ i \in {r.id : r \in invitations} \ past_expiry
    /\ past_expiry' = past_expiry \cup {i}
    /\ UNCHANGED <<auth_users, deleted_users, invitations, organization_users,
                   next_invitation_id, next_membership_id, started, granted, thr>>
    /\ UNCHANGED others

\* A database call raises.  The handler's except clause answers 500; inside
\* delete_organization_user and the auto-accept loop the failure is logged and
\* the next step follows.
RaisesTo500 == {"inv_limit", "inv_pending", "inv_insert", "can_update",
                "acc_check", "acc_insert", "acc_update",
                "cmp_check", "cmp_insert", "cmp_update", "cu_insert"}

RaisesToNext == [del_members |-> "del_invitations", del_invitations |-> "del_auth",
                 auto_mark |-> "auto_check", auto_insert |-> "auto_check",
                 auto_update |-> "auto_check"]

CallRaises(w) ==
    /\ \/ thr[w].pc \in RaisesTo500 /\ Respond(w, 500)
       \/ thr[w].pc \in DOMAIN RaisesToNext /\ Goto(w, RaisesToNext[thr[w].pc])
    /\ UNCHANGED <<tables, started>>
    /\ UNCHANGED others

Next ==
    \/ \E w \in Workers :
         \/ Invite(w) \/ InviteLimit(w) \/ InviteExists(w) \/ InvitePending(w) \/ InviteInsert(w)
         \/ Cancel(w) \/ CancelPerm(w) \/ CancelUpdate(w)
         \/ Accept(w) \/ AcceptCheck(w) \/ AcceptInsert(w) \/ AcceptUpdate(w)
         \/ Complete(w) \/ CompleteCheck(w) \/ CompleteInsert(w) \/ CompleteUpdate(w)
         \/ AutoAccept(w) \/ AutoCheck(w) \/ AutoMark(w) \/ AutoInsert(w) \/ AutoUpdate(w)
         \/ CreateUser(w) \/ CreateAccount(w) \/ CreateInsert(w)
         \/ DeleteUser(w) \/ DeleteData(w) \/ DeleteMembers(w) \/ DeleteInvitations(w)
         \/ DeleteAuth(w)
         \/ CallRaises(w)
    \/ \E u \in Users : Signup(u)
    \/ \E i \in 1..MaxRequests : TimePasses(i)

Spec == Init /\ [][Next]_vars

\* Requests served one at a time: no request is received while another is in
\* progress.
SpecSeq == InitSeq /\ [][Next]_vars

\* The invitation endpoints by themselves: invite, verify, accept and cancel,
\* and the listing of one's enterprises, with sign-ups and the clock, one
\* request at a time.
NextInvite ==
    \/ \E w \in Workers :
         \/ Invite(w) \/ InviteLimit(w) \/ InviteExists(w) \/ InvitePending(w) \/ InviteInsert(w)
         \/ Verify(w) \/ MyEnterprises(w) \/ MyEnterprisesQuery(w)
         \/ Cancel(w) \/ CancelPerm(w) \/ CancelUpdate(w)
         \/ Accept(w) \/ AcceptCheck(w) \/ AcceptInsert(w) \/ AcceptUpdate(w)
         \/ CallRaises(w)
    \/ \E u \in Users : Signup(u)
    \/ \E i \in 1..MaxRequests : TimePasses(i)

SpecInvite == InitSeq /\ [][NextInvite]_vars

\* The server with the e-mail service configured, one request at a time:
\* invitations are sent, cancelled and expire.
InitMail ==
    /\ InitEnt /\ InitPlansEmpty /\ InitSettingsEmpty
    /\ serial = TRUE /\ retry = NoCall /\ is_configured = TRUE /\ singleton = NoClient

NextMail ==
    \/ \E w \in Workers :
         \/ Invite(w) \/ InviteLimit(w) \/ InviteExists(w) \/ InvitePending(w) \/ InviteInsert(w)
         \/ SendEmail(w) \/ InviteJoin(w)
         \/ Cancel(w) \/ CancelPerm(w) \/ CancelUpdate(w)
         \/ CallRaises(w)
    \/ \E i \in 1..MaxRequests : TimePasses(i)

\* the request thread keeps running; the send thread need not
SpecMail == InitMail /\ [][NextMail]_vars /\ \A w \in Workers : WF_vars(InviteJoin(w))

\* ================================================================ meal plans
\* everything but the meal-plan table and the request threads
planFrame == <<auth_users, deleted_users, invitations, organization_users,
               next_invitation_id, next_membership_id, past_expiry, granted,
               setVars, server>>

PlanById(i) == {p \in meal_plan_management : p.id = i}

PlanNames == {"plan a", "plan b"}

\* SupabaseService.get_meal_plans: the end user's listing
get_meal_plans_unfiltered(u) == {p \in meal_plan_management : p.user_id = u}

get_meal_plans(u) == {p \in meal_plan_management : p.user_id = u /\ p.is_approved}

\* get_user_meal_plans: the admin's listing of a member's plans
get_user_meal_plans(u) == {p \in meal_plan_management : p.user_id = u}

\* The start every admin meal-plan endpoint shares: check_user_is_org_admin,
\* then (where the plan is named) the plan row, then the membership of the
\* plan's user in the enterprise of the URL.
PlanRequest(w, o, next, names) ==
    \E u \in auth_users, e \in Enterprises, i \in KnownPlans, n \in names :
      \E a \in check_user_is_org_admin(u, e) :
        LET req == [Request(o, u) EXCEPT !.ent = e, !.plan = i, !.name = n]
        IN IF ~IsAdminAnswer(a) THEN Set(w, Answer(req, 403))
           ELSE IF PlanById(i) = {} THEN Set(w, Answer(req, 404))
           ELSE \E p \in PlanById(i) :
                  IF Memberships(e, p.user_id) = {}
                  THEN Set(w, Answer(req, 403))
                  ELSE Set(w, [req EXCEPT !.pc = next, !.target = p.user_id])

Approved(p) == [p EXCEPT !.is_approved = TRUE]

\* update({'is_approved': True, ...}).eq('id', plan_id)
ApprovePlanRow(i) == {IF p.id = i THEN Approved(p) ELSE p : p \in meal_plan_management}

\* update(update_data).eq('id', plan_id)
ResetPlanRow(i, n) ==
    {IF p.id = i THEN [p EXCEPT !.name = n, !.is_approved = FALSE] ELSE p :
        p \in meal_plan_management}

RenamePlanRow(i, n) ==
    {IF p.id = i THEN [p EXCEPT !.name = n] ELSE p : p \in meal_plan_management}

\* ------------------------------------------------------ create_user_meal_plan
CreatePlan(w) ==
    /\ Free(w)
    /\ next_plan_id + Cardinality({v \in Workers : thr[v].pc \in {"cp_insert", "ocp_insert"}})
          <= MaxPlans
    /\ \E u \in auth_users, e \in Enterprises, t \in Users, n \in PlanNames :
         \E a \in check_user_is_org_admin(u, e) :
           LET req == [Request("create_user_meal_plan", u) EXCEPT
                          !.ent = e, !.target = t, !.name = n]
           IN IF ~IsAdminAnswer(a) THEN Set(w, Answer(req, 403))
              ELSE IF Memberships(e, t) = {} THEN Set(w, Answer(req, 404))
              ELSE Set(w, [req EXCEPT !.pc = "cp_insert"])
    /\ started' = started + 1
    /\ UNCHANGED <<planVars, planFrame>>

\* insert with is_approved False; user_info.is_created_by_user False
CreatePlanInsert(w) ==
    /\ thr[w].pc = "cp_insert"
    /\ meal_plan_management' = meal_plan_management \cup
          {[id |-> next_plan_id, user_id |-> thr[w].target, name |-> thr[w].name,
            is_approved |-> FALSE, is_created_by_user |-> FALSE]}
    /\ next_plan_id' = next_plan_id + 1
    /\ Set(w, Answer([thr[w] EXCEPT !.plan = next_plan_id], 201))
    /\ UNCHANGED <<approved_ok, rejected_ok, started, planFrame>>

\* ---------------------------------------------- SupabaseService.save_meal_plan
\* the end user saves a plan of their own: inserted with is_approved True
SavePlan(w) ==
    /\ Free(w)
    /\ next_plan_id + Cardinality({v \in Workers : thr[v].pc \in {"cp_insert", "ocp_insert"}})
          <= MaxPlans
    /\ \E u \in auth_users, n \in PlanNames :
         /\ meal_plan_management' = meal_plan_management \cup
               {[id |-> next_plan_id, user_id |-> u, name |-> n,
                 is_approved |-> TRUE, is_created_by_user |-> TRUE]}
         /\ Set(w, Answer([Request("save_meal_plan", u) EXCEPT !.plan = next_plan_id], 201))
    /\ next_plan_id' = next_plan_id + 1
    /\ started' = started + 1
    /\ UNCHANGED <<approved_ok, rejected_ok, planFrame>>

\* -------------------------------------------- SupabaseService.delete_meal_plan
\* the end user deletes a plan of their own: delete().eq('user_id').eq('id')
UserDeletePlan(w) ==
    /\ Free(w)
    /\ \E u \in auth_users, i \in KnownPlans :
         /\ meal_plan_management' =
               {p \in meal_plan_management : ~(p.id = i /\ p.user_id = u)}
         /\ Set(w, Answer([Request("delete_meal_plan", u) EXCEPT !.plan = i],
                          IF \E p \in PlanById(i) : p.user_id = u THEN 200 ELSE 404))
    /\ started' = started + 1
    /\ UNCHANGED <<next_plan_id, approved_ok, rejected_ok, planFrame>>

\* ----------------------------------------------------------- approve_meal_plan
ApprovePlan(w) ==
    /\ Free(w)
    /\ PlanRequest(w, "approve_meal_plan", "ap_update", {"none"})
    /\ started' = started + 1
    /\ UNCHANGED <<planVars, planFrame>>

\* update({'is_approved': True}).eq('id', plan_id); no row updated: 500
ApproveUpdate(w) ==
    /\ thr[w].pc = "ap_update"
    /\ IF PlanById(thr[w].plan) = {}
       THEN /\ Respond(w, 500)
            /\ UNCHANGED <<meal_plan_management, approved_ok>>
       ELSE /\ meal_plan_management' = ApprovePlanRow(thr[w].plan)
            /\ approved_ok' = approved_ok \cup {thr[w].plan}
            /\ Respond(w, 200)
    /\ UNCHANGED <<next_plan_id, rejected_ok, started, planFrame>>

\* ------------------------------------------------------------ reject_meal_plan
RejectPlan(w) ==
    /\ Free(w)
    /\ PlanRequest(w, "reject_meal_plan", "rj_delete", {"none"})
    /\ started' = started + 1
    /\ UNCHANGED <<planVars, planFrame>>

\* the row is kept, marked unapproved
HidePlanRow(i) ==
    {IF p.id = i THEN [p EXCEPT !.is_approved = FALSE] ELSE p : p \in meal_plan_management}

\* delete().eq('id', plan_id)
DeletePlanRow(i) == {p \in meal_plan_management : p.id # i}

\* no row deleted: 500
RejectDelete(w) ==
    /\ thr[w].pc = "rj_delete"
    /\ IF PlanById(thr[w].plan) = {}
       THEN /\ Respond(w, 500)
            /\ UNCHANGED <<meal_plan_management, rejected_ok>>
       ELSE /\ meal_plan_management' = DeletePlanRow(thr[w].plan)
            /\ rejected_ok' = rejected_ok \cup {thr[w].plan}
            /\ Respond(w, 200)
    /\ UNCHANGED <<next_plan_id, approved_ok, started, planFrame>>

\* ------------------------------------------------------- update_user_meal_plan
UpdatePlan(w) ==
    /\ Free(w)
    /\ PlanRequest(w, "update_user_meal_plan", "up_update", PlanNames)
    /\ started' = started + 1
    /\ UNCHANGED <<planVars, planFrame>>

\* update(update_data).eq('id', plan_id): name and the like, never is_approved
UpdatePlanWrite(w) ==
    /\ thr[w].pc = "up_update"
    /\ IF PlanById(thr[w].plan) = {}
       THEN /\ Respond(w, 500)
            /\ UNCHANGED meal_plan_management
       ELSE /\ meal_plan_management' =
                  RenamePlanRow(thr[w].plan, thr[w].name)
            /\ Respond(w, 200)
    /\ UNCHANGED <<next_plan_id, approved_ok, rejected_ok, started, planFrame>>

\* ------------------------------------------------------- delete_user_meal_plan
DeletePlan(w) ==
    /\ Free(w)
    /\ PlanRequest(w, "delete_user_meal_plan", "dl_delete", {"none"})
    /\ started' = started + 1
    /\ UNCHANGED <<planVars, planFrame>>

DeletePlanWrite(w) ==
    /\ thr[w].pc = "dl_delete"
    /\ IF PlanById(thr[w].plan) = {}
       THEN /\ Respond(w, 500)
            /\ UNCHANGED meal_plan_management
       ELSE /\ meal_plan_management' = DeletePlanRow(thr[w].plan)
            /\ Respond(w, 200)
    /\ UNCHANGED <<next_plan_id, approved_ok, rejected_ok, started, planFrame>>

\* a database call of a meal-plan endpoint raises: its except clause answers 500
PlanCallRaises(w) ==
    /\ thr[w].pc \in {"cp_insert", "ocp_insert", "ap_update", "rj_delete", "up_update",
                      "dl_delete"}
    /\ Respond(w, 500)
    /\ UNCHANGED <<planVars, started, planFrame>>

\* the enterprise e1 with its patient u1 and an admin member o2
InitPlans ==
    /\ auth_users = Users
    /\ deleted_users = {}
    /\ invitations = {}
    /\ organization_users =
          {[id |-> 1, enterprise_id |-> "e1", user_id |-> "u1", role |-> "patient"],
           [id |-> 2, enterprise_id |-> "e1", user_id |-> "o2", role |-> "admin"]}
    /\ next_invitation_id = 1
    /\ next_membership_id = 3
    /\ started = 0
    /\ past_expiry = {}
    /\ granted = {}
    /\ thr = [w \in Workers |-> Idle]
    /\ InitPlansEmpty
    /\ InitSettingsEmpty
    /\ serial = FALSE
    /\ retry = NoCall
    /\ is_configured = FALSE
    /\ singleton = NoClient

NextPlans ==
    \E w \in Workers :
       \/ CreatePlan(w) \/ CreatePlanInsert(w)
       \/ SavePlan(w) \/ UserDeletePlan(w)
       \/ ApprovePlan(w) \/ ApproveUpdate(w)
       \/ RejectPlan(w) \/ RejectDelete(w)
       \/ UpdatePlan(w) \/ UpdatePlanWrite(w)
       \/ DeletePlan(w) \/ DeletePlanWrite(w)
       \/ PlanCallRaises(w)

SpecPlans == InitPlans /\ [][NextPlans]_vars

\* ------------------------- create_user_meal_plan of enterprise_routes_optimized
\* require_enterprise_admin (check_user_is_org_admin), then the membership of
\* the target user
OptCreatePlan(w) ==
    /\ Free(w)
    /\ next_plan_id + Cardinality({v \in Workers : thr[v].pc \in {"cp_insert", "ocp_insert"}})
          <= MaxPlans
    /\ \E u \in auth_users, e \in Enterprises, t \in Users, n \in PlanNames :
         \E a \in check_user_is_org_admin(u, e) :
           LET req == [Request("create_user_meal_plan_optimized", u) EXCEPT
                          !.ent = e, !.target = t, !.name = n]
           IN IF ~IsAdminAnswer(a) THEN Set(w, Answer(req, 403))
              ELSE IF Memberships(e, t) = {} THEN Set(w, Answer(req, 404))
              ELSE Set(w, [req EXCEPT !.pc = "ocp_insert"])
    /\ started' = started + 1
    /\ UNCHANGED <<planVars, planFrame>>

\* insert with is_approved True ("Auto-approve"); user_info.is_created_by_user False
OptCreatePlanInsert(w) ==
    /\ thr[w].pc = "ocp_insert"
    /\ meal_plan_management' = meal_plan_management \cup
          {[id |-> next_plan_id, user_id |-> thr[w].target, name |-> thr[w].name,
            is_approved |-> TRUE, is_created_by_user |-> FALSE]}
    /\ next_plan_id' = next_plan_id + 1
    /\ Set(w, Answer([thr[w] EXCEPT !.plan = next_plan_id], 201))
    /\ UNCHANGED <<approved_ok, rejected_ok, started, planFrame>>

\* the meal-plan endpoints with both blueprints' creation endpoints
NextOptimized ==
    \E w \in Workers :
       \/ CreatePlan(w) \/ CreatePlanInsert(w)
       \/ OptCreatePlan(w) \/ OptCreatePlanInsert(w)
       \/ ApprovePlan(w) \/ ApproveUpdate(w)
       \/ RejectPlan(w) \/ RejectDelete(w)
       \/ PlanCallRaises(w)

SpecOptimized == InitPlans /\ [][NextOptimized]_vars

\* ============================================================ user settings
\* everything but the settings tables and the request threads
setFrame == <<auth_users, deleted_users, invitations, organization_users,
              next_invitation_id, next_membership_id, past_expiry, granted,
              planVars, server>>

\* the users who save settings
Savers == {"u1"}

\* expected_fields of save_user_settings (those of them that are in Fields)
expected_fields == {"age"}

\* str.isdigit() on a key
isdigit(k) == k \in {"0"}

\* value is not None and value != ''
HasValue(v) == v \notin {Missing, ""}

\* the keys the comparison looks at
tracked_any(k) == TRUE

tracked(k) == k \in expected_fields \/ ~isdigit(k)

\* existing settings present: the keys of both objects whose serialised values differ
compared(old, new) ==
    {k \in Fields : /\ old[k] # Missing \/ new[k] # Missing
                    /\ tracked(k)
                    /\ old[k] # new[k]}

\* first save, and the list used when nothing was found changed
expected_with_values(new) == {k \in Fields : k \in expected_fields /\ HasValue(new[k])}

\* the last resort: every non-numeric key that has a value
named_with_values(new) == {k \in Fields : ~isdigit(k) /\ HasValue(new[k])}

changed_fields(old, new) ==
    LET first  == IF old # NoSettings THEN compared(old, new) ELSE expected_with_values(new)
        second == IF first = {} THEN expected_with_values(new) ELSE first
    IN IF second = {} THEN named_with_values(new) ELSE second

\* ---------------------------------------------------------- save_user_settings
\* The route refuses an empty object; the service reads the existing settings
\* (a failed read leaves existing_settings = {}).
SaveSettings(w) ==
    /\ Free(w)
    /\ started < MaxSaves
    /\ \E u \in Savers, d \in Settings :
         LET req == [Request("save_user_settings", u) EXCEPT !.data = d]
         IN IF d = NoSettings
            THEN Set(w, Answer(req, 400))
            ELSE \E read \in {user_settings[u], NoSettings} :
                   Set(w, [req EXCEPT !.pc = "set_write", !.existing = read,
                                      !.before = user_settings[u]])
    /\ started' = started + 1
    /\ UNCHANGED <<setVars, setFrame>>

\* rpc('upsert_user_settings') succeeds and the saved record is read back next
SaveRpc(w) ==
    /\ thr[w].pc = "set_write"
    /\ user_settings' = [user_settings EXCEPT ![thr[w].user] = thr[w].data]
    /\ Goto(w, "set_reread")
    /\ UNCHANGED <<user_settings_history, next_history_id, started, setFrame>>

\* get_user_settings after the RPC; normalized_settings when it returns nothing
SaveReread(w) ==
    /\ thr[w].pc = "set_reread"
    /\ \E got \in {user_settings[thr[w].user], thr[w].data} :
         Set(w, [thr[w] EXCEPT !.pc = "set_history", !.persisted = got])
    /\ UNCHANGED <<setVars, started, setFrame>>

\* the RPC fails and the direct upsert writes; the upsert failing too, the
\* call returns (False, error)
SaveUpsert(w) ==
    /\ thr[w].pc = "set_write"
    /\ \/ /\ user_settings' = [user_settings EXCEPT ![thr[w].user] = thr[w].data]
          /\ Set(w, [thr[w] EXCEPT !.pc = "set_history", !.persisted = thr[w].data])
       \/ /\ UNCHANGED user_settings
          /\ Respond(w, 500)
    /\ UNCHANGED <<user_settings_history, next_history_id, started, setFrame>>

\* the history insert; its failure is logged and (True, None) returned all the same
SaveHistory(w) ==
    /\ thr[w].pc = "set_history"
    /\ \/ /\ user_settings_history' = user_settings_history \cup
                {[id |-> next_history_id, user_id |-> thr[w].user,
                  settings_data |-> thr[w].persisted,
                  previous_settings_data |-> thr[w].existing,
                  changed_fields |-> changed_fields(thr[w].existing, thr[w].data)]}
          /\ next_history_id' = next_history_id + 1
       \/ UNCHANGED <<user_settings_history, next_history_id>>
    /\ Respond(w, 200)
    /\ UNCHANGED <<user_settings, started, setFrame>>

\* ------------------------------------------------ delete_user_settings_history
\* the record ids a request can name
KnownHistory == 1..MaxSaves

\* delete().eq('id', record_id).eq('user_id', user_id); no row returned, or the
\* call raising, answers 404
DeleteHistory(w) ==
    /\ Free(w)
    /\ started < MaxSaves
    /\ \E u \in Savers, i \in KnownHistory :
         LET req  == Request("delete_user_settings_history", u)
             rows == {h \in user_settings_history : h.id = i /\ h.user_id = u}
         IN \/ /\ rows # {}
               /\ user_settings_history' = user_settings_history \ rows
               /\ Set(w, Answer(req, 200))
            \/ /\ UNCHANGED user_settings_history
               /\ Set(w, Answer(req, 404))
    /\ started' = started + 1
    /\ UNCHANGED <<user_settings, next_history_id, setFrame>>

NextSettings ==
    \E w \in Workers :
       \/ SaveSettings(w) \/ SaveRpc(w) \/ SaveReread(w) \/ SaveUpsert(w) \/ SaveHistory(w)
       \/ DeleteHistory(w)

SpecSettings == Init /\ [][NextSettings]_vars

\* ============================================================== retry loops
\* the length of the list of outcomes an operation is given
MaxAttempts == 4

\* initial_delay=0.5 of the helpers, in milliseconds
initial_delay == 500

\* What one call of the operation does: it returns, or raises one of
\*   ReadError  httpx.ReadError('')
\*   EAGAIN     OSError('[Errno 35] Resource temporarily unavailable')
\*   timeout    Exception('The read operation timed out')
\*   denied     Exception('permission denied for table')
Errors == {"ReadError", "EAGAIN", "timeout", "denied"}
Outcomes == Errors \cup {"ok"}
Scripts == [1..MaxAttempts -> Outcomes]

Helpers == {"retry_operation", "retry_supabase_call", "get_user_settings_history"}

\* SupabaseService._is_connection_error: substrings of str(error).lower() and of
\* the type name
is_any_error(e) == TRUE

is_connection_error(e) == e \in {"ReadError", "EAGAIN", "timeout"}

\* is_transient of _retry_supabase_call: substrings of str(e).lower(), errno 35
is_transient(e) == e \in {"EAGAIN", "timeout"}

\* except (httpx.ReadError, httpx.RemoteProtocolError, httpcore.ReadError,
\*         httpcore.RemoteProtocolError)
typed_connection_error(e) == e = "ReadError"

\* is_connection_error of get_user_settings_history: substrings of the text
text_unmatched(e) == FALSE

text_matched(e) == e = "EAGAIN"

\* the outer handler of get_user_settings_history: isinstance, the same
\* substrings, or the type name
outer_connection_error(e) == typed_connection_error(e) \/ text_matched(e)

\* attempt < max_retries - 1
may_retry_again(attempt) == attempt < max_retries

may_retry(attempt) == attempt < max_retries - 1

RECURSIVE Pow2(_)
Pow2(n) == IF n = 0 THEN 1 ELSE 2 * Pow2(n - 1)

\* initial_delay * (2 ** attempt)
backoff(attempt) == initial_delay * Pow2(attempt)

\* what the operation does at this attempt
Outcome == retry.script[retry.attempt + 1]

retryFrame == <<entVars, planVars, setVars, serial, is_configured, singleton>>

\* the stored history row of a first save of {age: 30}
FirstHistoryRow ==
    [id |-> 1, user_id |-> "u1", settings_data |-> [NoSettings EXCEPT !["age"] = "30"],
     previous_settings_data |-> NoSettings, changed_fields |-> {"age"}]

\* a call enters one of the loops with an operation that behaves as the script
\* says; the history table is empty or holds one row
InitRetry ==
    /\ InitEnt
    /\ InitPlansEmpty
    /\ serial = FALSE
    /\ is_configured = FALSE
    /\ singleton = NoClient
    /\ \/ InitSettingsEmpty
       \/ /\ user_settings = [u \in Users |-> IF u = "u1" THEN FirstHistoryRow.settings_data
                                                ELSE NoSettings]
          /\ user_settings_history = {FirstHistoryRow}
          /\ next_history_id = 2
    /\ \E h \in Helpers, sc \in Scripts :
         retry = [NoCall EXCEPT !.helper = h, !.script = sc, !.pc = "call",
                                !.delay = initial_delay]

\* one pass of the for loop of _retry_operation: (result, None), a sleep before
\* the next attempt, or (None, last_error)
RetryOperation ==
    /\ retry.helper = "retry_operation"
    /\ retry.pc = "call"
    /\ LET called == [retry EXCEPT !.calls = @ + 1]
           failed == [called EXCEPT !.last_error = Outcome]
       IN retry' =
            IF Outcome = "ok"
            THEN [called EXCEPT !.pc = "done", !.result = "ok", !.returned = <<"ok", "none">>]
            ELSE IF is_connection_error(Outcome) /\ may_retry(retry.attempt)
                 THEN [failed EXCEPT !.pc = "sleep", !.delay = backoff(retry.attempt)]
            ELSE [failed EXCEPT !.pc = "done", !.result = "error",
                                !.returned = <<"none", Outcome>>]
    /\ UNCHANGED retryFrame

\* one pass of the for loop of _retry_supabase_call: the result, a sleep before
\* the next attempt, or the exception raised again
RetrySupabaseCall ==
    /\ retry.helper = "retry_supabase_call"
    /\ retry.pc = "call"
    /\ LET called == [retry EXCEPT !.calls = @ + 1]
       IN retry' =
            IF Outcome = "ok" THEN [called EXCEPT !.pc = "done", !.result = "ok"]
            ELSE IF ~is_transient(Outcome) \/ ~may_retry(retry.attempt)
                 THEN [called EXCEPT !.pc = "done", !.result = "raised"]
            ELSE [called EXCEPT !.pc = "sleep", !.delay = backoff(retry.attempt)]
    /\ UNCHANGED retryFrame

\* one pass of the query loop of get_user_settings_history and, when the loop
\* ends, the response: the rows; an empty list when result is None or the
\* outer handler sees a connection error; 500 otherwise
HistoryQuery ==
    /\ retry.helper = "get_user_settings_history"
    /\ retry.pc = "call"
    /\ LET called == [retry EXCEPT !.calls = @ + 1]
           rows   == {h.id : h \in {r \in user_settings_history : r.user_id = "u1"}}
           answer(c, l) == [called EXCEPT !.pc = "done", !.code = c, !.listed = l]
       IN retry' =
            IF Outcome = "ok" THEN answer(200, rows)
            ELSE IF typed_connection_error(Outcome)
                 THEN IF may_retry(retry.attempt) THEN [called EXCEPT !.pc = "sleep"]
                      ELSE answer(200, {})
            ELSE IF text_matched(Outcome) /\ may_retry(retry.attempt)
                 THEN [called EXCEPT !.pc = "sleep"]
            ELSE IF outer_connection_error(Outcome) THEN answer(200, {})
            ELSE answer(500, {})
    /\ UNCHANGED retryFrame

\* time.sleep(delay) and the next attempt; the route doubles its retry_delay
BackoffSleep ==
    /\ retry.pc = "sleep"
    /\ retry' = [retry EXCEPT !.slept = Append(@, retry.delay),
                              !.attempt = @ + 1,
                              !.pc = "call",
                              !.delay = IF retry.helper = "get_user_settings_history"
                                        THEN 2 * @ ELSE @]
    /\ UNCHANGED retryFrame

NextRetry == RetryOperation \/ RetrySupabaseCall \/ HistoryQuery \/ BackoffSleep

SpecRetry == InitRetry /\ [][NextRetry]_vars

\* the thread inside a loop keeps running: a call returns or raises, a sleep ends
SpecRetryFair == SpecRetry /\ WF_vars(NextRetry)

\* ========================================================= get_admin_client
clientFrame == <<entVars, planVars, setVars, serial, retry, is_configured>>

\* every thread is about to call get_admin_client; SUPABASE_URL and
\* SUPABASE_SERVICE_ROLE_KEY are both set, or one of them is missing
InitClient ==
    /\ InitEnt /\ InitPlansEmpty /\ InitSettingsEmpty
    /\ serial = FALSE /\ retry = NoCall /\ is_configured = FALSE
    /\ \E cr \in BOOLEAN :
         singleton = [NoClient EXCEPT !.credentials = cr,
                                      !.pc = [c \in Callers |-> "start"]]

\* if _admin_client is None, outside the lock
FirstCheck(c) ==
    /\ singleton.pc[c] = "start"
    /\ singleton' = [singleton EXCEPT
                        !.pc[c] = IF singleton.admin_client = 0 THEN "lock" ELSE "return"]
    /\ UNCHANGED clientFrame

\* with _admin_client_lock: blocks until the lock is free
Acquire(c) ==
    /\ singleton.pc[c] = "lock"
    /\ singleton.lock = 0
    /\ singleton' = [singleton EXCEPT !.lock = c, !.pc[c] = "second"]
    /\ UNCHANGED clientFrame

\* if _admin_client is None, inside the lock
assumed_none(client) == TRUE

still_none(client) == client = 0

\* the second check and the credentials: ValueError leaves the with block,
\* which releases the lock
SecondCheck(c) ==
    /\ singleton.pc[c] = "second"
    /\ singleton' =
          IF ~still_none(singleton.admin_client)
          THEN [singleton EXCEPT !.pc[c] = "release"]
          ELSE IF ~singleton.credentials
          THEN [singleton EXCEPT !.lock = 0, !.pc[c] = "raised"]
          ELSE [singleton EXCEPT !.pc[c] = "create"]
    /\ UNCHANGED clientFrame

\* _admin_client = create_client(supabase_url, service_role_key): a new instance
CreateClient(c) ==
    /\ singleton.pc[c] = "create"
    /\ singleton' = [singleton EXCEPT
                        !.create_client_calls = @ + 1,
                        !.admin_client = singleton.create_client_calls + 1,
                        !.pc[c] = "release"]
    /\ UNCHANGED clientFrame

\* the end of the with block
Release(c) ==
    /\ singleton.pc[c] = "release"
    /\ singleton' = [singleton EXCEPT !.lock = 0, !.pc[c] = "return"]
    /\ UNCHANGED clientFrame

\* return _admin_client
ReturnClient(c) ==
    /\ singleton.pc[c] = "return"
    /\ singleton' = [singleton EXCEPT !.got[c] = singleton.admin_client, !.pc[c] = "done"]
    /\ UNCHANGED clientFrame

NextClient ==
    \E c \in Callers :
       \/ FirstCheck(c) \/ Acquire(c) \/ SecondCheck(c)
       \/ CreateClient(c) \/ Release(c) \/ ReturnClient(c)

SpecClient == InitClient /\ [][NextClient]_vars

\* ------------------------------------------------------------------ claims
Accepting == {"accept_invitation", "complete_invitation", "auto_accept"}

\* C1: the status of an invitation changes only from pending to accepted or
\* from pending to cancelled, under every interleaving of the requests' calls.
StatusOnlyLeavesPending ==
    [][\A r \in invitations : \A q \in invitations' :
         (q.id = r.id /\ q.status # r.status)
            => (r.status = "pending" /\ q.status \in {"accepted", "cancelled"})]_vars

\* C2: organization_users holds at most one row per (enterprise_id, user_id),
\* for any number of concurrent accepting requests.
OneRowPerMember ==
    \A m \in organization_users : \A n \in organization_users :
        (m.enterprise_id = n.enterprise_id /\ m.user_id = n.user_id) => m = n

\* C3: no organization_users row names the owner (created_by) of its enterprise.
OwnerNeverMember ==
    \A m \in organization_users : m.user_id # created_by[m.enterprise_id]

\* C4: an invitation is single-use: an insert made for an invitation is the
\* first one made for it, and is not made once the invitation is accepted.
InvitationSingleUse ==
    [][\A g \in granted' \ granted :
         /\ ~\E h \in granted : h[1] = g[1]
         /\ \A r \in InvitationById(g[1]) : r.status # "accepted"]_vars

\* C7: a step of accept_invitation, complete_invitation or the auto-accept
\* helper, made for a user who has a membership row in the invitation's
\* enterprise, leaves the number of rows of that (enterprise_id, user_id) as
\* it was (requests served one at a time).
AcceptIdempotent ==
    [][\A w \in Workers :
         (/\ thr[w].op \in Accepting
          /\ thr'[w] # thr[w]
          /\ Memberships(thr[w].ent, thr[w].user) # {})
         => Cardinality({m \in organization_users' :
                            m.enterprise_id = thr[w].ent /\ m.user_id = thr[w].user})
              = Cardinality(Memberships(thr[w].ent, thr[w].user))]_vars

\* the auto-accept helper has found its user a member already and marks the
\* invitation accepted without an insert
AlreadyMemberSeen ==
    \E w \in Workers :
        /\ thr[w].op = "auto_accept"
        /\ thr[w].pc = "auto_mark"
        /\ Cardinality(Memberships(thr[w].ent, thr[w].user)) = 1

\* C8: when accept_invitation answers 200 to an authenticated user, the
\* membership row of (invitation.enterprise_id, user) exists and the invitation
\* is accepted.
AcceptSuccessMeansBoth ==
    [][\A w \in Workers :
         (/\ thr[w].op = "accept_invitation"
          /\ thr[w].user # Anon
          /\ thr[w].pc # "respond"
          /\ thr'[w].pc = "respond"
          /\ thr'[w].code = 200)
         => /\ \E m \in organization_users' :
                 m.enterprise_id = thr[w].ent /\ m.user_id = thr[w].user
            /\ \E r \in invitations' : r.id = thr[w].inv /\ r.status = "accepted"]_vars

\* C5: a plan created by create_user_meal_plan is in its user's listing
\* (get_meal_plans) in no state before approve_meal_plan has succeeded on it,
\* and in every state after that for as long as the row exists.
AdminPlanVisibleIffApproved ==
    \A p \in meal_plan_management :
        ~p.is_created_by_user => (p \in get_meal_plans(p.user_id) <=> p.id \in approved_ok)

\* an admin-created plan has been approved and is listed to its user, while
\* another one still waits unlisted
ApprovedPlanListed ==
    /\ \E p \in meal_plan_management :
          ~p.is_created_by_user /\ p.id \in approved_ok /\ p \in get_meal_plans(p.user_id)
    /\ \E p \in meal_plan_management :
          ~p.is_created_by_user /\ p.id \notin approved_ok /\ p \notin get_meal_plans(p.user_id)

NewHistory == user_settings_history' \ user_settings_history

\* the step in which save_user_settings writes its history row and returns
HistoryStep(w) == thr[w].pc = "set_history" /\ thr'[w].pc = "respond"

SuccessfulSaveHasHistory ==
    [][\A w \in Workers :
         (/\ thr[w].op = "save_user_settings"
          /\ thr[w].pc # "respond"
          /\ thr'[w].pc = "respond"
          /\ thr'[w].code = 200)
         => /\ Cardinality(NewHistory) = 1
            /\ \A h \in NewHistory :
                  /\ h.user_id = thr[w].user
                  /\ h.previous_settings_data = thr[w].before
                  /\ h.settings_data = thr[w].data]_vars

\* C11: the settings history is append-only: every row that was ever written
\* stays in user_settings_history, unmodified, whatever operation runs.
HistoryAppendOnly ==
    [][user_settings_history \subseteq user_settings_history']_vars

\* the step in which verify_invitation answers
VerifyStep(w) == thr'[w] # thr[w] /\ thr'[w].op = "verify_invitation"

\* C12 as stated: every invitation found whose expires_at is earlier than the
\* current time is rejected with the 'Invitation has expired' error (400), and the
\* details are returned only when status is pending and expires_at is not past.
VerifyRejectsExpired ==
    [][\A w \in Workers : VerifyStep(w) /\ thr'[w].code # 500 =>
         \A r \in InvitationByToken(thr'[w].inv) :
            /\ r.id \in past_expiry => thr'[w].code = 400 /\ thr'[w].error = "expired"
            /\ thr'[w].code = 200 => r.status = "pending" /\ r.id \notin past_expiry]_vars

\* C12, amended: when the lookup succeeds, an invitation with a past expires_at
\* is always rejected with 400: with the 'Invitation has expired' error when
\* its status is pending, with 'Invitation is <status>' otherwise; the details
\* are returned exactly when status is pending and expires_at is not past.
VerifyRejectsExpiredPending ==
    [][\A w \in Workers : VerifyStep(w) /\ thr'[w].code # 500 =>
         \A r \in InvitationByToken(thr'[w].inv) :
            /\ r.id \in past_expiry =>
                 /\ thr'[w].code = 400
                 /\ thr'[w].error = IF r.status = "pending" THEN "expired" ELSE "status"
            /\ thr'[w].code = 200 <=> r.status = "pending" /\ r.id \notin past_expiry]_vars

\* verify_invitation has answered 'Invitation has expired' for a pending invitation
ExpiredPendingRejected ==
    \E w \in Workers :
        /\ thr[w].op = "verify_invitation" /\ thr[w].error = "expired"
        /\ \E r \in InvitationByToken(thr[w].inv) : r.status = "pending" /\ r.id \in past_expiry

\* C13: invite_user, reading a member count equal to max_users, answers with
\* the limit-reached error (or 500 when the count query itself raises) and
\* inserts no invitation row.
InviteAtLimitRefused ==
    [][\A w \in Workers :
         (/\ thr[w].op = "invite_user"
          /\ thr[w].pc = "inv_limit"
          /\ thr'[w] # thr[w]
          /\ current_count(thr[w].ent) = max_users[thr[w].ent])
         => /\ invitations' = invitations
            /\ thr'[w].pc = "respond"
            /\ \/ thr'[w].code = 400 /\ thr'[w].error = "limit"
               \/ thr'[w].code = 500]_vars

\* an enterprise is full and invite_user has answered with the limit error
LimitErrorReturned ==
    /\ \E e \in Enterprises : current_count(e) = max_users[e]
    /\ \E w \in Workers : thr[w].op = "invite_user" /\ thr[w].error = "limit"

\* the user is the owner of the enterprise or has an admin-role membership in it
IsOwnerOrAdmin(u, e) ==
    \/ created_by[e] = u
    \/ \E m \in Memberships(e, u) : m.role = "admin"

\* C14: invite_user inserts an invitation row only if the requester is the
\* owner or an admin-role member of the enterprise and the target e-mail has
\* no account, whatever the account-existence lookups answer.
InviteOnlyByAdminForNewEmail ==
    [][\A r \in invitations' \ invitations :
         /\ r.email \notin auth_users
         /\ IsOwnerOrAdmin(r.invited_by, r.enterprise_id)]_vars

\* C15: cancel_invitation sets an invitation's status to cancelled only when
\* the requester is the owner or an admin-role member of its enterprise and
\* the invitation is pending; when it answers 404, 403 or 400 the invitation
\* rows are unchanged.
CancelOnlyPendingByAdmin ==
    [][\A w \in Workers :
         thr'[w] # thr[w] /\ thr'[w].op = "cancel_invitation" =>
            /\ \A r \in invitations \ invitations' :
                  /\ r.status = "pending"
                  /\ IsOwnerOrAdmin(thr[w].user, r.enterprise_id)
            /\ thr'[w].code \in {404, 403, 400} => invitations' = invitations]_vars

\* the enterprise ids a caller can pass: the registered ones and one with no row
EnterpriseIds == Enterprises \cup {"e0"}

\* C16: check_user_is_org_admin answers (True, owner) exactly when the
\* enterprise exists and the user is its created_by; otherwise it answers True
\* exactly when the user has a membership row with role admin there; a failed
\* lookup, a missing enterprise, no membership or another role answer False.
AdminCheckMatchesRoles ==
    \A u \in Users, e \in EnterpriseIds :
        LET answers == check_user_is_org_admin(u, e) \ {"error"}
            owner   == e \in Enterprises /\ created_by[e] = u
            admin   == \E m \in Memberships(e, u) : m.role = "admin"
        IN /\ ~IsAdminAnswer("error")
           /\ IF owner THEN answers = {"owner"}
              ELSE IF admin THEN answers = {"admin"}
              ELSE answers # {} /\ \A a \in answers : ~IsAdminAnswer(a)

\* the operation fails with an error the helper takes for a transient
\* connection error, at every attempt
KeepsFailing ==
    \/ /\ retry.helper = "retry_operation"
       /\ \A i \in 1..MaxAttempts : retry.script[i] \in {"ReadError", "EAGAIN", "timeout"}
    \/ /\ retry.helper = "retry_supabase_call"
       /\ \A i \in 1..MaxAttempts : retry.script[i] \in {"EAGAIN", "timeout"}

HistoryReadDowngraded ==
    retry.helper = "get_user_settings_history" /\ retry.pc = "done" =>
        /\ (\A i \in 1..3 : retry.script[i] \in {"ReadError", "EAGAIN"})
              => retry.code = 200 /\ retry.listed = {} /\ retry.calls = 3
        /\ retry.script[retry.calls] \in {"timeout", "denied"} => retry.code = 500

\* the history holds a row and the route has answered 200 with an empty list
\* after three connection errors
EmptyHistoryOnConnectionErrors ==
    /\ retry.helper = "get_user_settings_history" /\ retry.pc = "done"
    /\ \A i \in 1..3 : retry.script[i] \in {"ReadError", "EAGAIN"}
    /\ retry.code = 200 /\ retry.listed = {}
    /\ user_settings_history # {}

\* C19: no exception escapes an enterprise route handler: whatever the BaaS
\* calls do, the failure to obtain the client included, the handler returns its
\* own JSON error response.
NoUncaughtException ==
    \A w \in Workers : thr[w].error # "uncaught"

\* C20: no membership row is inserted on behalf of an invitation whose
\* expires_at is earlier than the current time, on any acceptance path.
ExpiredNeverGrants ==
    [][\A g \in granted' \ granted : g[1] \notin past_expiry]_vars

\* C21: at most one pending invitation per (enterprise_id, email), after any
\* sequence and interleaving of invite_user, cancel_invitation and acceptance
\* requests.
OnePendingPerEmail ==
    \A e \in Enterprises, mail \in Users : Cardinality(PendingFor(e, mail)) <= 1

\* what _retry_operation has done so far, against the outcomes of its operation:
\* never more than max_retries calls; every call before the last one failed
\* with a transient connection error; once it has returned, the last call
\* succeeded ((result, None)), or failed with an error that is not one, or was
\* call number max_retries ((None, that error))
RetryOperationContract ==
    LET n == retry.calls
        transient(i) == retry.script[i] \in {"ReadError", "EAGAIN", "timeout"}
    IN /\ n <= 3
       /\ \A i \in 1..(n - 1) : transient(i)
       /\ retry.pc = "done" =>
             /\ n >= 1
             /\ IF retry.script[n] = "ok" THEN retry.returned = <<"ok", "none">>
                ELSE /\ retry.returned = <<"none", retry.script[n]>>
                     /\ ~transient(n) \/ n = 3

\* C22: _retry_operation always terminates after at most max_retries (3)
\* invocations of the operation: (result, None) at the first success, no
\* further attempt after the first error that is not a transient connection
\* error, otherwise (None, last error) after the last attempt.
RetryOperationTerminates ==
    /\ [](retry.helper = "retry_operation" => RetryOperationContract)
    /\ (retry.helper = "retry_operation" => <>(retry.pc = "done"))

\* _retry_operation has stopped at a permission error of the second call,
\* after one transient failure
StoppedAtPermanentError ==
    /\ retry.helper = "retry_operation" /\ retry.pc = "done"
    /\ retry.calls = 2
    /\ retry.script[1] = "timeout" /\ retry.script[2] = "denied"
    /\ retry.returned = <<"none", "denied">>

\* C23: invite_user always answers once the invitation row is inserted, even
\* if the e-mail thread never finishes: with the thread still running after
\* the join, or the send failed, the response is 201 with email_sent false and
\* the created invitation row stays in place.
InviteAnswersWithoutEmail ==
    /\ [][\A w \in Workers :
            thr[w].pc = "inv_join" /\ thr'[w].pc # "inv_join" =>
               /\ thr'[w].pc = "respond" /\ thr'[w].code = 201
               /\ thr[w].mailer \in {"running", "failed"} => ~thr'[w].email_sent
               /\ invitations' = invitations
               /\ \E r \in invitations' : r.id = thr[w].inv]_vars
    /\ \A w \in Workers : (thr[w].pc = "inv_join") ~> (thr[w].pc = "respond")

\* invite_user has answered 201 with email_sent false and the invitation it
\* created is on record, pending
AnsweredWithoutEmail ==
    \E w \in Workers :
        /\ thr[w].op = "invite_user" /\ thr[w].pc = "respond" /\ thr[w].code = 201
        /\ ~thr[w].email_sent
        /\ \E r \in invitations : r.id = thr[w].inv /\ r.status = "pending"

OptimizedPlanNeedsApproval ==
    \A p \in meal_plan_management :
        (~p.is_created_by_user /\ p.id \notin approved_ok)
           => ~p.is_approved /\ p \notin get_meal_plans(p.user_id)

\* C26: a membership row created through an invitation belongs to the user
\* whose account e-mail equals the invitation's e-mail, on every acceptance path.
MembershipOnlyForInvitedEmail ==
    [][\A g \in granted' \ granted :
         \A m \in organization_users' : \A r \in InvitationById(g[1]) :
            m.id = g[2] => m.user_id = r.email]_vars

\* C27: delete_organization_user, run by the owner of an enterprise for one of
\* its members, leaves the organization_users rows and the invitations of
\* every other enterprise unchanged.
DeleteUserStaysInEnterprise ==
    [][\A w \in Workers :
         (thr[w].op = "delete_organization_user" /\ thr'[w] # thr[w]) =>
            /\ {m \in organization_users : m.enterprise_id # thr[w].ent}
                  = {m \in organization_users' : m.enterprise_id # thr[w].ent}
            /\ {r \in invitations : r.enterprise_id # thr[w].ent}
                  = {r \in invitations' : r.enterprise_id # thr[w].ent}]_vars

\* C28: the number of organization_users rows of an enterprise is at most its
\* max_users, after any sequence and interleaving of invite_user,
\* accept_invitation, complete_invitation, auto-accept and create_user requests.
MembersWithinMaxUsers ==
    \A e \in Enterprises :
        Cardinality({m \in organization_users : m.enterprise_id = e}) <= max_users[e]

\* C29: approval is monotone: no operation changes a plan's is_approved from
\* true to false, so a plan that is in its user's listing stays in it for as
\* long as the row exists.
ApprovalMonotone ==
    [][\A p \in meal_plan_management :
         (p.is_approved /\ p \in get_meal_plans(p.user_id)) =>
            \A q \in meal_plan_management' :
               q.id = p.id => q.is_approved /\ q \in get_meal_plans(p.user_id)']_vars

\* the only plan was created by an admin, approved, and then changed by
\* update_user_meal_plan: it is still approved and listed
ApprovedPlanUpdated ==
    /\ next_plan_id = 2
    /\ approved_ok = {1}
    /\ thr["w1"].op = "update_user_meal_plan" /\ thr["w1"].pc = "respond" /\ thr["w1"].code = 200
    /\ thr["w2"].op = "none"
    /\ \E p \in meal_plan_management :
          p.id = 1 /\ ~p.is_created_by_user /\ p \in get_meal_plans(p.user_id)

\* C30: no operation writes the status expired: an invitation past its
\* expires_at keeps status pending until it is cancelled, and while it is
\* pending invite_user, reaching its pending-invitation check, rejects a new
\* invitation for the same (enterprise_id, email) with 'User already has a
\* pending invitation' (500 when the select raises), whatever the expiry.
ExpiredStaysPending ==
    /\ [](\A r \in invitations : r.status \in {"pending", "accepted", "cancelled"})
    /\ [][\A r \in invitations : \A q \in invitations' :
            (r.id \in past_expiry /\ r.status = "pending" /\ q.id = r.id)
               => q.status \in {"pending", "cancelled"}]_vars
    /\ [][\A w \in Workers :
            (/\ thr[w].pc = "inv_pending"
             /\ thr'[w] # thr[w]
             /\ PendingFor(thr[w].ent, thr[w].email) # {})
            => /\ invitations' = invitations
               /\ thr'[w].pc = "respond"
               /\ \/ thr'[w].code = 400 /\ thr'[w].error = "pending"
                  \/ thr'[w].code = 500]_vars

====
